---- MODULE Spec2Model ----
(***************************************************************************)
(* A model of fib.py: the iterative producer fibonacci(n), the recursive   *)
(* evaluator fibonacci_recursive(n) run on an explicit call stack, and the *)
(* entry sequence under `if __name__ == "__main__"`.                       *)
(*                                                                         *)
(* One behaviour is one run of the interpreter on one of three scripts:    *)
(*   entry = "main"                 the entry sequence of fib.py           *)
(*   entry = "fibonacci"            the single call fibonacci(arg)         *)
(*   entry = "fibonacci_recursive"  the single call                        *)
(*                                  fibonacci_recursive(arg)               *)
(* Every action is one statement (or one test of a compound statement) of  *)
(* the source.  Python integers are unbounded, so no width is modelled.    *)
(***************************************************************************)
EXTENDS Integers, Sequences, FiniteSets, TLC

\* Largest argument of a direct call.
MaxN == 10
\* Direct calls take arguments from -MaxNeg .. MaxN.
MaxNeg == 5

\* fibonacci(10) at line 18 and range(10) at line 21.
MainN == 10
MainRange == 10

VARIABLES
    entry,      \* which script runs
    arg,        \* the argument of the direct call (0 for "main")
    pc,         \* position of the top-level script
    stdout,     \* everything written to standard output so far
    mi,         \* entry sequence: items taken from range(10); in the body i = mi - 1
    fpc,        \* fibonacci: position of its frame ("none" before the call, "ret" after)
    n,          \* fibonacci: parameter n
    a,          \* fibonacci: first accumulator
    b,          \* fibonacci: second accumulator
    it,         \* fibonacci: items taken from range(n); in the body i = it - 1
    emitted,    \* history: the values fibonacci passed to print, in order
    stack,      \* fibonacci_recursive: the active invocations, innermost last
    retval,     \* fibonacci_recursive: the value of the latest return
    calls,      \* history: invocations since the latest top-level call
    results     \* history: <<argument, returned value>> of every finished invocation

vars == <<entry, arg, pc, stdout, mi, fpc, n, a, b, it, emitted,
          stack, retval, calls, results>>

fibVars == <<fpc, n, a, b, it, emitted>>
recVars == <<stack, retval, calls, results>>

-----------------------------------------------------------------------------
(* Built-ins of the interpreter that the source relies on.                 *)

Digit(d) == SubSeq("0123456789", d + 1, d + 1)

\* Variant: the digits least significant first.
RECURSIVE MutStrNatReversed(_)
MutStrNatReversed(x) ==
    IF x < 10 THEN Digit(x) ELSE Digit(x % 10) \o MutStrNatReversed(x \div 10)

\* str(x) of a non-negative int: its decimal digits, most significant first.
RECURSIVE StrNat(_)
StrNat(x) == IF x < 10 THEN Digit(x) ELSE StrNat(x \div 10) \o Digit(x % 10)

\* str(x) of an int.
Str(x) == IF x < 0 THEN "-" \o StrNat(0 - x) ELSE StrNat(x)

\* Variant: the range includes its bound.
MutRangeLenInclusive(x) == IF x >= 0 THEN x + 1 ELSE 0

\* Variant: a negative bound counts as its absolute value.
MutRangeLenAbs(x) == IF x > 0 THEN x ELSE 0 - x

\* len(range(x)): range(x) yields 0, 1, ..., x-1 and nothing when x <= 0.
RangeLen(x) == IF x > 0 THEN x ELSE 0

\* print(text, end=e) appends text and then e; the default end is "\n".
PyPrint(out, text, e) == out \o text \o e

-----------------------------------------------------------------------------
(* fibonacci(n), lines 1-6.                                                *)

\* a, b = 0, 1
InitA == 0
InitB == 1

\* the end=" " of line 4 and the default end of print() at line 6
IterEnd == " "
LineEnd == "\n"

\* Variant: b = a + b is stored first and a = b reads the new b.
MutNextAAfterB(x, y) == x + y

\* Variant: a = b is stored first and b = a + b reads the new a.
MutNextBAfterA(x, y) == y + y

\* a, b = b, a + b: both right-hand sides are evaluated before either store.
NextA(x, y) == y
NextB(x, y) == x + y

\* Where the caller of fibonacci continues.
AfterFib(p) == IF p = "L18" THEN "L20" ELSE "done"

\* line 2
FibInit ==
    /\ fpc = "L2"
    /\ a' = InitA
    /\ b' = InitB
    /\ fpc' = "L3"
    /\ UNCHANGED <<entry, arg, pc, stdout, mi, n, it, emitted>>
    /\ UNCHANGED recVars

\* line 3, the iterator yields the next i
FibLoopEnter ==
    /\ fpc = "L3"
    /\ it < RangeLen(n)
    /\ it' = it + 1
    /\ fpc' = "L4"
    /\ UNCHANGED <<entry, arg, pc, stdout, mi, n, a, b, emitted>>
    /\ UNCHANGED recVars

\* line 3, the iterator is exhausted
FibLoopExit ==
    /\ fpc = "L3"
    /\ ~(it < RangeLen(n))
    /\ fpc' = "L6"
    /\ UNCHANGED <<entry, arg, pc, stdout, mi, n, a, b, it, emitted>>
    /\ UNCHANGED recVars

\* line 4
FibPrint ==
    /\ fpc = "L4"
    /\ stdout' = PyPrint(stdout, Str(a), IterEnd)
    /\ emitted' = Append(emitted, a)
    /\ fpc' = "L5"
    /\ UNCHANGED <<entry, arg, pc, mi, n, a, b, it>>
    /\ UNCHANGED recVars

\* line 5
FibUpdate ==
    /\ fpc = "L5"
    /\ a' = NextA(a, b)
    /\ b' = NextB(a, b)
    /\ fpc' = "L3"
    /\ UNCHANGED <<entry, arg, pc, stdout, mi, n, it, emitted>>
    /\ UNCHANGED recVars

\* line 6, and the return to the caller
FibReturn ==
    /\ fpc = "L6"
    /\ stdout' = PyPrint(stdout, "", LineEnd)
    /\ fpc' = "ret"
    /\ pc' = AfterFib(pc)
    /\ UNCHANGED <<entry, arg, mi, n, a, b, it, emitted>>
    /\ UNCHANGED recVars

-----------------------------------------------------------------------------
(* fibonacci_recursive(n), lines 8-14.  A frame holds the parameter n, the *)
(* position, and ev, the operands already evaluated at line 14.            *)

\* Variant: line 9 tests n == 0.
MutIsLe0OnlyZero(x) == x = 0

\* Variant: line 11 tests n == 2.
MutIsEq1Two(x) == x = 2

\* the tests of lines 9 and 11
IsLe0(x) == x <= 0
IsEq1(x) == x = 1

\* the values returned at lines 10 and 12
Ret0 == 0
Ret1 == 1

\* Variant: the first call repeats the argument n.
MutRecArg1NoDecrease(x) == x

\* Variant: the second call repeats the argument n-1.
MutRecArg2SameAsFirst(x) == x - 1

\* Variant: the results are subtracted.
MutRecSumMinus(x, y) == x - y

\* the arguments of the two calls of line 14, and the sum of their results
RecArg1(x) == x - 1
RecArg2(x) == x - 2
RecSum(x, y) == x + y

NewFrame(x) == [n |-> x, pc |-> "L9", ev |-> <<>>]

Top == stack[Len(stack)]
Pop == SubSeq(stack, 1, Len(stack) - 1)
SetTop(f) == [stack EXCEPT ![Len(stack)] = f]

\* a return statement: the frame is discarded and the value handed to the caller
Return(v) ==
    /\ stack' = Pop
    /\ retval' = v
    /\ results' = results \cup {<<Top.n, v>>}
    /\ UNCHANGED calls

\* a call from inside fibonacci_recursive: the caller moves on to `next`
CallFrom(next, ev, x) ==
    /\ stack' = Append(SetTop([Top EXCEPT !.pc = next, !.ev = ev]), NewFrame(x))
    /\ calls' = calls + 1
    /\ UNCHANGED <<retval, results>>

\* line 9
RecTestLe0 ==
    /\ stack # <<>>
    /\ Top.pc = "L9"
    /\ stack' = SetTop([Top EXCEPT !.pc = IF IsLe0(Top.n) THEN "L10" ELSE "L11"])
    /\ UNCHANGED <<retval, calls, results>>
    /\ UNCHANGED <<entry, arg, pc, stdout, mi>>
    /\ UNCHANGED fibVars

\* line 10
RecReturn0 ==
    /\ stack # <<>>
    /\ Top.pc = "L10"
    /\ Return(Ret0)
    /\ UNCHANGED <<entry, arg, pc, stdout, mi>>
    /\ UNCHANGED fibVars

\* line 11
RecTestEq1 ==
    /\ stack # <<>>
    /\ Top.pc = "L11"
    /\ stack' = SetTop([Top EXCEPT !.pc = IF IsEq1(Top.n) THEN "L12" ELSE "L14"])
    /\ UNCHANGED <<retval, calls, results>>
    /\ UNCHANGED <<entry, arg, pc, stdout, mi>>
    /\ UNCHANGED fibVars

\* line 12
RecReturn1 ==
    /\ stack # <<>>
    /\ Top.pc = "L12"
    /\ Return(Ret1)
    /\ UNCHANGED <<entry, arg, pc, stdout, mi>>
    /\ UNCHANGED fibVars

\* line 14, the left operand: call fibonacci_recursive(n-1)
RecCallFirst ==
    /\ stack # <<>>
    /\ Top.pc = "L14"
    /\ CallFrom("L14b", <<>>, RecArg1(Top.n))
    /\ UNCHANGED <<entry, arg, pc, stdout, mi>>
    /\ UNCHANGED fibVars

\* line 14, the right operand: keep the left result, call fibonacci_recursive(n-2)
RecCallSecond ==
    /\ stack # <<>>
    /\ Top.pc = "L14b"
    /\ CallFrom("L14c", <<retval>>, RecArg2(Top.n))
    /\ UNCHANGED <<entry, arg, pc, stdout, mi>>
    /\ UNCHANGED fibVars

\* line 14, the addition and the return
RecReturnSum ==
    /\ stack # <<>>
    /\ Top.pc = "L14c"
    /\ Return(RecSum(Top.ev[1], retval))
    /\ UNCHANGED <<entry, arg, pc, stdout, mi>>
    /\ UNCHANGED fibVars

\* The value fibonacci_recursive(x) returns, computed as lines 9-14 compute it.
RECURSIVE FibRec(_)
FibRec(x) ==
    IF IsLe0(x) THEN Ret0
    ELSE IF IsEq1(x) THEN Ret1
    ELSE RecSum(FibRec(RecArg1(x)), FibRec(RecArg2(x)))

-----------------------------------------------------------------------------
(* The entry sequence, lines 16-23.                                        *)

IterHeader == "Iterative Fibonacci:"
RecHeader == "Recursive Fibonacci:"

\* line 17
MainHeader1 ==
    /\ pc = "L17"
    /\ stdout' = PyPrint(stdout, IterHeader, LineEnd)
    /\ pc' = "L18"
    /\ UNCHANGED <<entry, arg, mi>>
    /\ UNCHANGED fibVars
    /\ UNCHANGED recVars

\* line 18, the call: a fresh frame of fibonacci with n bound to 10
MainCallFib ==
    /\ pc = "L18"
    /\ fpc = "none"
    /\ fpc' = "L2"
    /\ n' = MainN
    /\ it' = 0
    /\ UNCHANGED <<entry, arg, pc, stdout, mi, a, b, emitted>>
    /\ UNCHANGED recVars

\* line 20
MainHeader2 ==
    /\ pc = "L20"
    /\ stdout' = PyPrint(stdout, RecHeader, LineEnd)
    /\ pc' = "L21"
    /\ UNCHANGED <<entry, arg, mi>>
    /\ UNCHANGED fibVars
    /\ UNCHANGED recVars

\* line 21, the iterator yields the next i
MainLoopEnter ==
    /\ pc = "L21"
    /\ mi < RangeLen(MainRange)
    /\ mi' = mi + 1
    /\ pc' = "L22"
    /\ UNCHANGED <<entry, arg, stdout>>
    /\ UNCHANGED fibVars
    /\ UNCHANGED recVars

\* line 21, the iterator is exhausted
MainLoopExit ==
    /\ pc = "L21"
    /\ ~(mi < RangeLen(MainRange))
    /\ pc' = "L23"
    /\ UNCHANGED <<entry, arg, stdout, mi>>
    /\ UNCHANGED fibVars
    /\ UNCHANGED recVars

\* line 22, the call fibonacci_recursive(i)
MainCallRec ==
    /\ pc = "L22"
    /\ stack' = <<NewFrame(mi - 1)>>
    /\ calls' = 1
    /\ pc' = "L22r"
    /\ UNCHANGED <<entry, arg, stdout, mi, retval, results>>
    /\ UNCHANGED fibVars

\* line 22, the print of the returned value
MainPrintRec ==
    /\ pc = "L22r"
    /\ stack = <<>>
    /\ stdout' = PyPrint(stdout, Str(retval), IterEnd)
    /\ pc' = "L21"
    /\ UNCHANGED <<entry, arg, mi>>
    /\ UNCHANGED fibVars
    /\ UNCHANGED recVars

\* line 23
MainNewline ==
    /\ pc = "L23"
    /\ stdout' = PyPrint(stdout, "", LineEnd)
    /\ pc' = "done"
    /\ UNCHANGED <<entry, arg, mi>>
    /\ UNCHANGED fibVars
    /\ UNCHANGED recVars

-----------------------------------------------------------------------------
(* The direct calls fibonacci(arg) and fibonacci_recursive(arg).           *)

DirectCallFib ==
    /\ entry = "fibonacci"
    /\ pc = "call"
    /\ fpc' = "L2"
    /\ n' = arg
    /\ it' = 0
    /\ pc' = "in_call"
    /\ UNCHANGED <<entry, arg, stdout, mi, a, b, emitted>>
    /\ UNCHANGED recVars

DirectCallRec ==
    /\ entry = "fibonacci_recursive"
    /\ pc = "call"
    /\ stack' = <<NewFrame(arg)>>
    /\ calls' = 1
    /\ pc' = "in_call"
    /\ UNCHANGED <<entry, arg, stdout, mi, retval, results>>
    /\ UNCHANGED fibVars

DirectRecDone ==
    /\ entry = "fibonacci_recursive"
    /\ pc = "in_call"
    /\ stack = <<>>
    /\ pc' = "done"
    /\ UNCHANGED <<entry, arg, stdout, mi>>
    /\ UNCHANGED fibVars
    /\ UNCHANGED recVars

-----------------------------------------------------------------------------

Entries == {"main", "fibonacci", "fibonacci_recursive"}

\* Before a function is called it has no frame: fpc = "none", the stack is
\* empty, and the fields of the absent frames are held at 0 and never read.
Init ==
    /\ entry \in Entries
    /\ arg \in (IF entry = "main" THEN {0} ELSE (0 - MaxNeg) .. MaxN)
    /\ pc = (IF entry = "main" THEN "L17" ELSE "call")
    /\ stdout = ""
    /\ mi = 0
    /\ fpc = "none"
    /\ n = 0
    /\ a = 0
    /\ b = 0
    /\ it = 0
    /\ emitted = <<>>
    /\ stack = <<>>
    /\ retval = 0
    /\ calls = 0
    /\ results = {}

Next ==
    \/ FibInit
    \/ FibLoopEnter
    \/ FibLoopExit
    \/ FibPrint
    \/ FibUpdate
    \/ FibReturn
    \/ RecTestLe0
    \/ RecReturn0
    \/ RecTestEq1
    \/ RecReturn1
    \/ RecCallFirst
    \/ RecCallSecond
    \/ RecReturnSum
    \/ MainHeader1
    \/ MainCallFib
    \/ MainHeader2
    \/ MainLoopEnter
    \/ MainLoopExit
    \/ MainCallRec
    \/ MainPrintRec
    \/ MainNewline
    \/ DirectCallFib
    \/ DirectCallRec
    \/ DirectRecDone

Spec == Init /\ [][Next]_vars

\* The interpreter is a single thread that always executes its next statement.
LiveSpec == Spec /\ WF_vars(Next)

Done == pc = "done"

-----------------------------------------------------------------------------
(* Vocabulary of the properties.                                           *)

\* The Fibonacci sequence F(0)=0, F(1)=1, F(k)=F(k-1)+F(k-2).
F[k \in 0 .. (MaxN + MainN + 2)] ==
    IF k = 0 THEN 0 ELSE IF k = 1 THEN 1 ELSE F[k - 1] + F[k - 2]

Max(x, y) == IF x > y THEN x ELSE y

IsPrefix(s, t) == Len(s) <= Len(t) /\ SubSeq(t, 1, Len(s)) = s

IsDigit(c) == c \in {"0", "1", "2", "3", "4", "5", "6", "7", "8", "9"}

\* The number of fields of a line of the form (digits " ")* "\n", and -1 for
\* any other text.  inNumber: the previous character was a digit.
RECURSIVE CountFields(_, _)
CountFields(s, inNumber) ==
    IF s = "" THEN -1
    ELSE LET c == SubSeq(s, 1, 1)
             rest == Tail(s)
         IN  IF IsDigit(c) THEN CountFields(rest, TRUE)
             ELSE IF c = " " /\ inNumber
                  THEN LET r == CountFields(rest, FALSE)
                       IN  IF r < 0 THEN -1 ELSE r + 1
             ELSE IF c = "\n" /\ ~inNumber /\ rest = "" THEN 0
             ELSE -1

DirectFib == entry = "fibonacci"
DirectRec == entry = "fibonacci_recursive"
FibActive == fpc \in {"L2", "L3", "L4", "L5", "L6"}

\* The program has finished or has a next statement to execute: no statement
\* fails.
NoError == Done \/ ENABLED Next

-----------------------------------------------------------------------------
(* The properties.                                                         *)

\* C1: for every n >= 1 and every k with 0 <= k < n, the k-th value
\* (0-indexed) emitted by fibonacci(n) is the value fibonacci_recursive(k)
\* returns; and the value every finished invocation of fibonacci_recursive
\* returned on the call stack is the value FibRec gives for its argument.
C1_IterativeMatchesRecursive ==
    /\ (fpc # "none" /\ n >= 1) =>
          /\ Len(emitted) <= n
          /\ \A k \in 0 .. (Len(emitted) - 1) : emitted[k + 1] = FibRec(k)
    /\ \A r \in results : r[2] = FibRec(r[1])

C1_Witness ==
    /\ DirectFib
    /\ Done
    /\ n >= 5
    /\ Len(emitted) = n
    /\ emitted[n] = FibRec(n - 1)

\* C2: for every n >= 0 the output of fibonacci(n) is exactly n integers,
\* each immediately followed by exactly one space, then exactly one newline
\* as the last character; for n = 0 it is the newline alone.
C2_OutputFormat ==
    (DirectFib /\ Done /\ arg >= 0) =>
        /\ CountFields(stdout, FALSE) = arg
        /\ arg = 0 => stdout = "\n"

C2_Witness ==
    /\ DirectFib
    /\ Done
    /\ arg >= 5
    /\ CountFields(stdout, FALSE) = arg

\* C3: for every k >= 2 the value fibonacci_recursive(k) returned is the sum
\* of the values fibonacci_recursive(k-1) and fibonacci_recursive(k-2)
\* returned; every argument has one returned value.
C3_Recurrence ==
    /\ \A r1, r2 \in results : r1[1] = r2[1] => r1[2] = r2[2]
    /\ \A r \in results :
          r[1] >= 2 =>
             /\ \E r1 \in results : r1[1] = r[1] - 1
             /\ \E r2 \in results : r2[1] = r[1] - 2
             /\ \A r1, r2 \in results :
                   (r1[1] = r[1] - 1 /\ r2[1] = r[1] - 2) => r[2] = r1[2] + r2[2]

C3_Witness ==
    /\ Done
    /\ \E r \in results : r[1] >= 5 /\ r[2] >= 5

\* C4: for every n <= 0, negative n included, fibonacci_recursive(n) returns
\* 0 as a normal result, with no error and no recursive call; the n <= 0
\* test comes before the n == 1 test, so no invocation with n <= 0 reaches
\* line 11 or beyond.
C4_NonPositiveReturnsZero ==
    /\ (DirectRec /\ arg <= 0) =>
          /\ Len(stack) <= 1
          /\ calls <= 1
          /\ NoError
          /\ Done => (retval = 0 /\ calls = 1 /\ results = {<<arg, 0>>})
    /\ \A j \in 1 .. Len(stack) :
          stack[j].n <= 0 => stack[j].pc \in {"L9", "L10"}
    /\ \A r \in results : r[1] <= 0 => r[2] = 0

C4_Witness ==
    /\ DirectRec
    /\ arg < 0
    /\ Done
    /\ retval = 0
    /\ calls = 1

NumberLine == "0 1 1 2 3 5 8 13 21 34 "
IterBlock == IterHeader \o "\n" \o NumberLine \o "\n"
ExpectedOutput == IterBlock \o RecHeader \o "\n" \o NumberLine \o "\n"

\* C5: the entry sequence prints exactly the four lines "Iterative
\* Fibonacci:", "0 1 1 2 3 5 8 13 21 34 ", "Recursive Fibonacci:",
\* "0 1 1 2 3 5 8 13 21 34 " in this order and nothing else, and all output
\* of the iterative producer precedes the "Recursive Fibonacci:" header.
C5_EntryOutput ==
    entry = "main" =>
        /\ IsPrefix(stdout, ExpectedOutput)
        /\ Done => stdout = ExpectedOutput
        /\ (fpc = "none" \/ FibActive) => IsPrefix(stdout, IterBlock)
        /\ pc = "L20" => (fpc = "ret" /\ stdout = IterBlock)
        /\ pc \in {"L21", "L22", "L22r", "L23", "done"} =>
              (fpc = "ret" /\ Len(stdout) > Len(IterBlock))

C5_Witness ==
    /\ entry = "main"
    /\ Done
    /\ stdout = ExpectedOutput

\* C6: fibonacci_recursive(0) = 0, fibonacci_recursive(1) = 1,
\* fibonacci_recursive(-5) = 0 and fibonacci_recursive(10) = 55.
C6_Examples ==
    (DirectRec /\ Done) =>
        /\ arg = 0 => retval = 0
        /\ arg = 1 => retval = 1
        /\ arg = -5 => retval = 0
        /\ arg = 10 => retval = 55

C6_Witness ==
    /\ DirectRec
    /\ Done
    /\ arg = 10
    /\ retval = 55

\* C7: for every negative n, fibonacci(n) performs zero loop iterations and
\* emits what fibonacci(0) emits, a single newline and no numbers, and no
\* statement fails.
C7_NegativeIsZeroTerms ==
    (DirectFib /\ arg <= 0) =>
        /\ it = 0
        /\ emitted = <<>>
        /\ fpc \notin {"L4", "L5"}
        /\ NoError
        /\ IsPrefix(stdout, "\n")
        /\ Done => stdout = "\n"

C7_Witness ==
    /\ DirectFib
    /\ arg < 0
    /\ Done
    /\ fpc = "ret"
    /\ stdout = "\n"

\* C8: in fibonacci(n), at the start of the loop and after each completed
\* iteration, with i iterations completed, a = F(i) and b = F(i+1); each
\* iteration emits the value a held before the update; the update uses the
\* old values of both accumulators (new a = old b, new b = old a + old b).
C8_LoopInvariant ==
    /\ [](/\ fpc = "L3" => (a = F[it] /\ b = F[it + 1] /\ Len(emitted) = it)
          /\ fpc = "L4" => (a = F[it - 1] /\ b = F[it] /\ Len(emitted) = it - 1)
          /\ fpc = "L5" => (a = F[it - 1] /\ Len(emitted) = it /\ emitted[it] = a)
          /\ fpc \in {"L3", "L4", "L5", "L6", "ret"} => it <= RangeLen(n))
    /\ [][fpc = "L5" => (a' = b /\ b' = a + b /\ emitted' = emitted)]_vars

C8_Witness ==
    /\ fpc = "L3"
    /\ it >= 5
    /\ a = F[it]
    /\ b = F[it + 1]

\* Each invocation below another has a smaller argument than its caller, and
\* only invocations with an argument above 1 call.
ArgumentsDecrease ==
    \A j \in 1 .. (Len(stack) - 1) :
        stack[j + 1].n < stack[j].n /\ stack[j].n > 1

\* C9: every call terminates: fibonacci_recursive(n) returns, each recursive
\* call having a strictly smaller argument until it is <= 1; fibonacci(n)
\* returns after exactly max(n, 0) loop iterations; the entry sequence runs
\* to completion.
C9_Termination ==
    /\ <>Done
    /\ []ArgumentsDecrease
    /\ [](fpc = "ret" => (it = Max(n, 0) /\ Len(emitted) = Max(n, 0)))
    /\ [](Done => (stack = <<>> /\ ~FibActive /\ ~ENABLED Next))

C9_Witness ==
    /\ Done
    /\ DirectRec
    /\ arg = MaxN
    /\ calls > MaxN

\* C10: nothing is cached: for every n >= 0 one top-level call
\* fibonacci_recursive(n) causes exactly 2*F(n+1) - 1 invocations, itself
\* included, and never more than max(n, 1) invocations are active at once.
C10_CallCount ==
    /\ (DirectRec /\ arg >= 0) =>
          /\ Len(stack) <= Max(arg, 1)
          /\ Done => calls = 2 * F[arg + 1] - 1
    /\ (entry = "main" /\ pc = "L22r") =>
          /\ Len(stack) <= Max(mi - 1, 1)
          /\ stack = <<>> => calls = 2 * F[mi] - 1

C10_Witness ==
    /\ DirectRec
    /\ Done
    /\ arg >= 5
    /\ calls = 2 * F[arg + 1] - 1

====
